---- MODULE Spec2Model ----
(***************************************************************************)
(* fmi-schema, fmi3/annotation.rs: the Fmi3Annotations container and its   *)
(* Annotation entries, read with yaserde::de::from_str and written with    *)
(* yaserde::ser::to_string.  Both types carry only derive attributes, so   *)
(* the model is the code that #[derive(YaDeserialize)] and                 *)
(* #[derive(YaSerialize)] expand to for these two structs, run over a      *)
(* stream of XML tokens: the generated `loop { match reader.peek()? }`,    *)
(* the Deserializer's peek / next_event / skip_element / depth, and the    *)
(* XML tokenizer's wellformedness checks.                                  *)
(*                                                                         *)
(* A document is a sequence of tokens (start tag or empty-element tag with *)
(* attributes, end tag, text).  An attribute value is a sequence of characters as written in    *)
(* the document (escaped); a decoded `type` is a sequence of characters.   *)
(***************************************************************************)
EXTENDS Integers, Sequences, FiniteSets, TLC

\* Most elements and text runs in a fragment the caller writes (end tags
\* are not counted: each closes an element that was counted).
MaxNodes == 4

VARIABLES
    xml,      \* the fragment handed to from_str
    at,       \* the tokenizer's view of xml as written so far (see Scan)
    pc,       \* "input", "decoded", "encoded", "redecoded"
    result,   \* Result<Fmi3Annotations, String> of from_str(xml)
    out,      \* the token stream to_string(result) wrote
    result2   \* Result of from_str(out)

vars == <<xml, at, pc, result, out, result2>>

----------------------------------------------------------------------------
(* Characters and strings *)

NoChars == << >>
V1 == <<"v", "1">>
V2 == <<"v", "2">>
Amp == <<"&">>
AmpEntity == <<"&", "a", "m", "p", ";">>

\* xml-rs writer: attribute values are escaped as they are written.
RECURSIVE Escape(_)
Escape(s) ==
    IF s = << >> THEN << >>
    ELSE (IF Head(s) = "&" THEN AmpEntity ELSE <<Head(s)>>) \o Escape(Tail(s))

\* xml-rs reader: an entity reference in an attribute value is replaced by
\* the character it names; a '&' that starts no reference is an error.
Unescaped(c, rest) == [ok |-> rest.ok, s |-> c \o rest.s]

RECURSIVE Unescape(_)
Unescape(v) ==
    IF v = << >> THEN [ok |-> TRUE, s |-> << >>]
    ELSE IF Head(v) # "&" THEN Unescaped(<<Head(v)>>, Unescape(Tail(v)))
    ELSE IF Len(v) >= 5 /\ SubSeq(v, 1, 5) = AmpEntity
         THEN Unescaped(<<"&">>, Unescape(SubSeq(v, 6, Len(v))))
    ELSE [ok |-> FALSE, s |-> << >>]

----------------------------------------------------------------------------
(* Tokens of a document *)

StartTok(n, a) == [kind |-> "start", name |-> n, attrs |-> a]
EmptyTok(n, a) == [kind |-> "empty", name |-> n, attrs |-> a]
EndTok(n)      == [kind |-> "end",   name |-> n, attrs |-> << >>]
TextTok        == [kind |-> "text",  name |-> "", attrs |-> << >>]

Attr(n, v) == [name |-> n, value |-> v]

----------------------------------------------------------------------------
(* The Deserializer: the XML event reader with yaserde's depth counter.   *)
(* pos is the next token, half whether the start of the empty-element tag  *)
(* at pos has been read (its end is next), open the tokenizer's stack of   *)
(* open elements, closed whether the root element has ended, depth         *)
(* yaserde's counter.                                                      *)

NewReader == [pos |-> 1, half |-> FALSE, depth |-> 0, open |-> << >>, closed |-> FALSE]

ErrorEvent == [k |-> "Error", name |-> "", attributes |-> << >>]

UnescapedAttr(n, u, rest) ==
    [ok |-> u.ok /\ rest.ok, attributes |-> <<Attr(n, u.s)>> \o rest.attributes]

RECURSIVE UnescapeAll(_)
UnescapeAll(attrs) ==
    IF attrs = << >> THEN [ok |-> TRUE, attributes |-> << >>]
    ELSE UnescapedAttr(Head(attrs).name, Unescape(Head(attrs).value),
                       UnescapeAll(Tail(attrs)))

StartElement(n, u) ==
    IF u.ok THEN [k |-> "StartElement", name |-> n, attributes |-> u.attributes]
    ELSE ErrorEvent

\* Deserializer::peek: the next event, or the tokenizer's error.  The
\* tokenizer ends with an error when the stream ends inside an element or
\* before any root, on an end tag that closes no open element or another
\* one than the innermost, on a malformed attribute value, and on markup or
\* text outside the root element.  An empty-element tag is read as a start
\* tag followed by an end tag.
Peek(doc, r) ==
    IF r.half
    THEN [k |-> "EndElement", name |-> doc[r.pos].name, attributes |-> << >>]
    ELSE IF r.pos > Len(doc)
    THEN IF r.closed THEN [k |-> "EndDocument", name |-> "", attributes |-> << >>]
         ELSE ErrorEvent
    ELSE IF r.closed THEN ErrorEvent
    ELSE IF doc[r.pos].kind \in {"start", "empty"}
    THEN StartElement(doc[r.pos].name, UnescapeAll(doc[r.pos].attrs))
    ELSE IF doc[r.pos].kind = "end"
    THEN IF r.open # << >> /\ r.open[Len(r.open)] = doc[r.pos].name
         THEN [k |-> "EndElement", name |-> doc[r.pos].name, attributes |-> << >>]
         ELSE ErrorEvent
    ELSE IF r.open # << >>
    THEN [k |-> "Characters", name |-> "", attributes |-> << >>]
    ELSE ErrorEvent

\* The reader after event e: a start tag raises depth, an end tag lowers it.
Consume(doc, r, e) ==
    IF e.k = "StartElement"
    THEN [pos |-> IF doc[r.pos].kind = "empty" THEN r.pos ELSE r.pos + 1,
          half |-> doc[r.pos].kind = "empty",
          depth |-> r.depth + 1,
          open |-> Append(r.open, e.name), closed |-> FALSE]
    ELSE IF e.k = "EndElement"
    THEN [pos |-> r.pos + 1, half |-> FALSE, depth |-> r.depth - 1,
          open |-> SubSeq(r.open, 1, Len(r.open) - 1),
          closed |-> Len(r.open) = 1]
    ELSE IF e.k = "Characters"
    THEN [r EXCEPT !.pos = r.pos + 1]
    ELSE r

\* Deserializer::next_event: consume the peeked event.  Used only where
\* Peek is not an error.
NextEvent(doc, r) == Consume(doc, r, Peek(doc, r))

\* Deserializer::skip_element: `while self.depth >= depth { next_event()? }`.
RECURSIVE skip_element(_, _, _)
skip_element(doc, r, depth) ==
    IF r.depth < depth THEN [ok |-> TRUE, r |-> r]
    ELSE IF Peek(doc, r).k \in {"Error", "EndDocument"} THEN [ok |-> FALSE, r |-> r]
    ELSE skip_element(doc, NextEvent(doc, r), depth)

----------------------------------------------------------------------------
(* The two structs, as their derive attributes describe them *)

\* #[yaserde(rename = "Annotations")] on Fmi3Annotations; Annotation has no
\* rename, so its root is the struct's name.
Root(S) == IF S = "Fmi3Annotations" THEN "Annotations" ELSE "Annotation"

\* Fields read from child elements: `annotations: Vec<Annotation>`, renamed
\* "Annotation".  Annotation has none.
ElementFields(S) == IF S = "Fmi3Annotations" THEN {"Annotation"} ELSE {}

\* Fields read from attributes: `r#type: String`, attribute = true, renamed
\* "type".  Fmi3Annotations has none.
AttributeFields(S) == IF S = "Annotation" THEN {"type"} ELSE {}

\* The generated deserializer's field variables before the loop: a Vec
\* starts as vec![], a String as String::default().  The field is a plain
\* String (no Option, no validation), so this is also what the struct is
\* built from when the loop never assigns it.
InitialFields == [annotations |-> << >>, type |-> NoChars]

\* Attribute loading of the generated deserializer:
\* `for attr in attributes { if attr.name.local_name == "type" { .. = value } }`.
RECURSIVE LoadAttributes(_, _, _)
LoadAttributes(S, attributes, fields) ==
    IF attributes = << >> THEN fields
    ELSE LoadAttributes(S, Tail(attributes),
                        IF Head(attributes).name \in AttributeFields(S)
                        THEN [fields EXCEPT !.type = Head(attributes).value]
                        ELSE fields)

Continue(r, fields) == [ok |-> TRUE, err |-> "none", r |-> r, fields |-> fields]

\* A `?` on the reader: the tokenizer's error leaves the deserializer.
Failure(r) == [ok |-> FALSE, err |-> "MalformedXml", r |-> r, fields |-> InitialFields]

\* The `_ =>` arm of the generated match on a start tag that is neither the
\* struct's root nor one of its fields: consume it and, unless it is the
\* element being read (depth = 0), skip to its end.
SkipUnknown_strict(doc, r, depth) == [ok |-> FALSE, r |-> r]
SkipUnknown_noskip(doc, r, depth) == [ok |-> TRUE, r |-> NextEvent(doc, r)]
SkipUnknown(doc, r, depth) ==
    IF depth > 0 THEN skip_element(doc, NextEvent(doc, r), r.depth + 1)
    ELSE [ok |-> TRUE, r |-> NextEvent(doc, r)]

UnknownArm(fields, sk) == IF sk.ok THEN Continue(sk.r, fields) ELSE Failure(sk.r)

\* What the field visitor does with a child that failed: `deserialize(reader)?`
\* returns the child's error from the enclosing deserialize.
ChildFailed(child, fields) ==
    [ok |-> FALSE, err |-> child.err, r |-> child.r, fields |-> fields]

\* `__annotations_value.push(value)`.
Push_dedup(vec, value) ==
    IF \E i \in 1..Len(vec) : vec[i] = value THEN vec ELSE Append(vec, value)
Push(vec, value) == Append(vec, value)

\* The field visitor after `<Annotation as YaDeserialize>::deserialize`:
\* the error leaves, or the value is pushed and the child's end tag read.
AfterChild(doc, fields, child) ==
    IF ~child.ok THEN ChildFailed(child, fields)
    ELSE IF Peek(doc, child.r).k = "Error" THEN Failure(child.r)
    ELSE Continue(NextEvent(doc, child.r),
                  [fields EXCEPT !.annotations = Push(@, [type |-> child.fields.type])])

RECURSIVE StructLoop(_, _, _, _, _, _, _)
RECURSIVE Deserialize(_, _, _)

\* The arm of the generated match for the field `annotations`; r1 is the
\* reader after `if depth == 0 { reader.next_event() }`.
VisitField(doc, r1, fields) ==
    IF Peek(doc, r1).k = "StartElement"
    THEN AfterChild(doc, fields, Deserialize(doc, r1, "Annotation"))
    ELSE Continue(r1, fields)

\* The generated match on a start tag e: the struct's own start tag, a
\* field's element, or anything else.
StartArm(doc, r, S, depth, fields, e) ==
    IF depth = 0 /\ e.name = Root(S) THEN Continue(NextEvent(doc, r), fields)
    ELSE IF e.name \in ElementFields(S)
    THEN VisitField(doc, IF depth = 0 THEN NextEvent(doc, r) ELSE r, fields)
    ELSE UnknownArm(fields, SkipUnknown(doc, r, depth))

\* After the arm: `if depth == 0 { attributes loading }; depth += 1`, and
\* the loop goes on.
AfterStart_partial(doc, S, named_element, start_depth, depth, e, step) ==
    IF ~step.ok THEN Continue(step.r, step.fields)
    ELSE StructLoop(doc, step.r, S, named_element, start_depth, depth + 1,
                    IF depth = 0 THEN LoadAttributes(S, e.attributes, step.fields)
                    ELSE step.fields)
AfterStart(doc, S, named_element, start_depth, depth, e, step) ==
    IF ~step.ok THEN step
    ELSE StructLoop(doc, step.r, S, named_element, start_depth, depth + 1,
                    IF depth = 0 THEN LoadAttributes(S, e.attributes, step.fields)
                    ELSE step.fields)

\* One pass of the generated `loop { match reader.peek()?.to_owned() { .. } }`
\* on the peeked event e, and the passes after it.  depth is the loop's own
\* counter; named_element and start_depth are taken before the loop.
OnEvent(doc, r, S, named_element, start_depth, depth, fields, e) ==
    IF e.k = "Error" THEN Failure(r)
    ELSE IF e.k = "StartElement"
    THEN AfterStart(doc, S, named_element, start_depth, depth, e,
                    StartArm(doc, r, S, depth, fields, e))
    ELSE IF e.k = "EndElement"
    THEN IF e.name = named_element /\ r.depth = start_depth + 1
         THEN Continue(r, fields)
         ELSE StructLoop(doc, NextEvent(doc, r), S, named_element, start_depth,
                         depth - 1, fields)
    ELSE IF e.k = "Characters"
    THEN StructLoop(doc, NextEvent(doc, r), S, named_element, start_depth, depth, fields)
    ELSE \* EndDocument: the loop peeks it again and again (flatten is false)
         [ok |-> FALSE, err |-> "NoReturn", r |-> r, fields |-> InitialFields]

StructLoop(doc, r, S, named_element, start_depth, depth, fields) ==
    OnEvent(doc, r, S, named_element, start_depth, depth, fields, Peek(doc, r))

\* <S as YaDeserialize>::deserialize: the name of the element at hand and
\* the reader's depth are taken, then the loop runs and the struct is built
\* from the field variables.
Begin(doc, r, S, first) ==
    IF first.k = "Error" THEN Failure(r)
    ELSE StructLoop(doc, r, S,
                    IF first.k = "StartElement" THEN first.name ELSE Root(S),
                    r.depth, 0, InitialFields)

Deserialize(doc, r, S) == Begin(doc, r, S, Peek(doc, r))

Outcome(d) ==
    IF d.ok THEN [ok |-> TRUE, err |-> "none", annotations |-> d.fields.annotations]
    ELSE [ok |-> FALSE, err |-> d.err, annotations |-> << >>]

\* yaserde::de::from_str::<Fmi3Annotations>: the container or the error.
from_str_or_default(doc) ==
    [Outcome(Deserialize(doc, NewReader, "Fmi3Annotations")) EXCEPT !.ok = TRUE, !.err = "none"]
from_str(doc) == Outcome(Deserialize(doc, NewReader, "Fmi3Annotations"))

----------------------------------------------------------------------------
(* The generated serializer *)

\* <Annotation as YaSerialize>::serialize: a start tag with the `type`
\* attribute (always written: the field has no default or skip function)
\* and its end tag.  The struct has no element fields, so nothing is
\* written between them and the writer emits one empty-element tag.
SerializeAnnotation_content(a) ==
    <<StartTok("Annotation", <<Attr("type", Escape(a.type))>>), TextTok, EndTok("Annotation")>>
SerializeAnnotation(a) ==
    <<EmptyTok("Annotation", <<Attr("type", Escape(a.type))>>)>>

RECURSIVE SerializeEach(_)
SerializeEach(vec) ==
    IF vec = << >> THEN << >>
    ELSE SerializeAnnotation(Head(vec)) \o SerializeEach(Tail(vec))

\* yaserde::ser::to_string::<Fmi3Annotations>: the root's start tag, each
\* entry of `annotations` in order, the root's end tag; a root without
\* entries is written as one empty-element tag.
to_string_reversed(c) ==
    IF c = << >> THEN <<EmptyTok("Annotations", << >>)>>
    ELSE <<StartTok("Annotations", << >>)>>
           \o SerializeEach([i \in 1..Len(c) |-> c[Len(c) + 1 - i]])
           \o <<EndTok("Annotations")>>
to_string(c) ==
    IF c = << >> THEN <<EmptyTok("Annotations", << >>)>>
    ELSE <<StartTok("Annotations", << >>)>> \o SerializeEach(c) \o <<EndTok("Annotations")>>

----------------------------------------------------------------------------
(* The caller: writes a fragment, decodes it, encodes the value, decodes   *)
(* the encoding.                                                           *)

Names == {"Annotations", "Annotation", "Simulink"}

VendorAttrs == <<Attr("FMUProduct", V1), Attr("type", V2)>>

\* The tokenizer reads the whole of doc without an error (the end of the
\* stream aside).
RECURSIVE Scan(_, _)
Scan(doc, r) ==
    IF r.pos > Len(doc) /\ ~r.half THEN [ok |-> TRUE, r |-> r]
    ELSE IF Peek(doc, r).k = "Error" THEN [ok |-> FALSE, r |-> r]
    ELSE Scan(doc, NextEvent(doc, r))

\* Where the caller is in the fragment: before the root, among the root's
\* children, inside a child (vendor content), after the root's end, or
\* after something the tokenizer rejects.
Context(s) ==
    IF ~s.ok THEN "error"
    ELSE IF s.r.closed THEN "trailing"
    ELSE IF Len(s.r.open) = 0 THEN "root"
    ELSE IF Len(s.r.open) = 1 THEN "child"
    ELSE "vendor"

\* The start tags the caller writes in each place.
StartChoices(ctx) ==
    IF ctx = "root"
    THEN {StartTok("Annotations", << >>), StartTok("Annotation", <<Attr("type", V1)>>)}
    ELSE IF ctx = "child"
    THEN {StartTok("Annotation", <<Attr("type", V1)>>), StartTok("Simulink", VendorAttrs)}
    ELSE IF ctx = "vendor"
    THEN {StartTok("Simulink", VendorAttrs)}
    ELSE {}

\* The empty-element tags the caller writes in each place.  A type of "&"
\* is a malformed attribute value; "&amp;" is its escaped form.
EmptyChoices(ctx) ==
    IF ctx = "root"
    THEN {EmptyTok("Annotations", << >>), EmptyTok("annotations", << >>),
          EmptyTok("Simulink", << >>)}
    ELSE IF ctx = "child"
    THEN {EmptyTok("Annotation", <<Attr("type", V1)>>),
          EmptyTok("Annotation", <<Attr("type", V2)>>),
          EmptyTok("Annotation", << >>),
          EmptyTok("Annotation", <<Attr("type", NoChars)>>),
          EmptyTok("Annotation", <<Attr("type", AmpEntity)>>),
          EmptyTok("Annotation", <<Attr("type", Amp)>>)}
    ELSE IF ctx = "vendor"
    THEN {EmptyTok("Annotation", <<Attr("type", V2)>>),
          EmptyTok("Annotation", << >>)}
    ELSE {EmptyTok("Annotation", <<Attr("type", V2)>>)}

Nodes(doc) == Cardinality({i \in 1..Len(doc) : doc[i].kind # "end"})

NoResult == [ok |-> FALSE, err |-> "none", annotations |-> << >>]

Init ==
    /\ xml = << >>
    /\ at = [ok |-> TRUE, r |-> NewReader]
    /\ pc = "input"
    /\ result = NoResult
    /\ out = << >>
    /\ result2 = NoResult

Write(t) ==
    /\ pc = "input"
    /\ xml' = Append(xml, t)
    /\ at' = IF at.ok THEN Scan(xml', at.r) ELSE at
    /\ UNCHANGED <<pc, result, out, result2>>

WriteStart ==
    /\ Nodes(xml) < MaxNodes
    /\ \E t \in StartChoices(Context(at)) : Write(t)

WriteEmpty ==
    /\ Nodes(xml) < MaxNodes
    /\ \E t \in EmptyChoices(Context(at)) : Write(t)

\* An end tag, of the open element or of another name.
WriteEnd ==
    /\ Context(at) \in {"child", "vendor"}
    /\ \E n \in Names : Write(EndTok(n))

\* An end tag after the root's.
WriteStrayEnd ==
    /\ Context(at) = "trailing"
    /\ Write(EndTok("Annotations"))

WriteText ==
    /\ Nodes(xml) < MaxNodes
    /\ Context(at) \in {"child", "vendor"}
    /\ xml[Len(xml)].kind # "text"
    /\ Write(TextTok)

Decode ==
    /\ pc = "input"
    /\ result' = from_str(xml)
    /\ pc' = "decoded"
    /\ UNCHANGED <<xml, at, out, result2>>

Encode ==
    /\ pc = "decoded"
    /\ result.ok
    /\ out' = to_string(result.annotations)
    /\ pc' = "encoded"
    /\ UNCHANGED <<xml, at, result, result2>>

DecodeAgain ==
    /\ pc = "encoded"
    /\ result2' = from_str(out)
    /\ pc' = "redecoded"
    /\ UNCHANGED <<xml, at, result, out>>

Next ==
    \/ WriteStart \/ WriteEmpty \/ WriteEnd \/ WriteStrayEnd \/ WriteText
    \/ Decode \/ Encode \/ DecodeAgain

Spec == Init /\ [][Next]_vars

----------------------------------------------------------------------------
(* The structure of a fragment, read off its tokens *)

IsElement(t) == t.kind \in {"start", "empty"}

\* Open elements before token i.
Depth(doc, i) ==
    Cardinality({j \in 1..(i - 1) : doc[j].kind = "start"})
      - Cardinality({j \in 1..(i - 1) : doc[j].kind = "end"})

\* Elements around token i (an end tag stands with its start tag).
Level(doc, i) == IF doc[i].kind = "end" THEN Depth(doc, i) - 1 ELSE Depth(doc, i)

RootIs(doc, n) == Len(doc) > 0 /\ IsElement(doc[1]) /\ doc[1].name = n

\* The <Annotation> elements that are children of the root, among the
\* first lim tokens.
DirectAnnotations(doc, lim) ==
    {i \in 1..lim : /\ IsElement(doc[i])
                    /\ doc[i].name = "Annotation"
                    /\ Level(doc, i) = 1
                    /\ \A j \in 2..(i - 1) : Level(doc, j) >= 1}

HasType(t) == \E k \in 1..Len(t.attrs) : t.attrs[k].name = "type"

TypeOf(t) ==
    Unescape(t.attrs[CHOOSE k \in 1..Len(t.attrs) : t.attrs[k].name = "type"].value).s

\* The tokens at the positions D, in document order, from position i on.
RECURSIVE TokensAt(_, _, _)
TokensAt(doc, D, i) ==
    IF i > Len(doc) THEN << >>
    ELSE (IF i \in D THEN <<doc[i]>> ELSE << >>) \o TokensAt(doc, D, i + 1)

DirectTokens(doc) == TokensAt(doc, DirectAnnotations(doc, Len(doc)), 1)

\* Token i lies inside an <Annotation> child of the root.
InsideAnnotation(doc, i) ==
    /\ Level(doc, i) >= 2
    /\ \E j \in 1..(i - 1) :
          /\ doc[j].kind = "start"
          /\ doc[j].name = "Annotation"
          /\ Level(doc, j) = 1
          /\ \A m \in (j + 1)..(i - 1) : Level(doc, m) >= 2

\* The fragment without what is nested inside its <Annotation> children.
Strip(doc) == TokensAt(doc, {i \in 1..Len(doc) : ~InsideAnnotation(doc, i)}, 1)

WellFormed == at.ok /\ at.r.closed

AllTyped(toks) == \A k \in 1..Len(toks) : HasType(toks[k])

EntriesMatch(entries, toks) ==
    /\ Len(entries) = Len(toks)
    /\ \A k \in 1..Len(toks) : HasType(toks[k]) => entries[k].type = TypeOf(toks[k])

\* The tags of doc balance: every end tag closes the innermost open element
\* and none is left open.  With rootOnly, only up to the root's end tag.
RECURSIVE Balance(_, _, _, _)
Balance(doc, i, stack, rootOnly) ==
    IF i > Len(doc) THEN stack = << >>
    ELSE IF doc[i].kind = "start"
    THEN Balance(doc, i + 1, Append(stack, doc[i].name), rootOnly)
    ELSE IF doc[i].kind = "empty"
    THEN (rootOnly /\ stack = << >>) \/ Balance(doc, i + 1, stack, rootOnly)
    ELSE IF doc[i].kind = "end"
    THEN /\ stack # << >>
         /\ stack[Len(stack)] = doc[i].name
         /\ \/ rootOnly /\ Len(stack) = 1
            \/ Balance(doc, i + 1, SubSeq(stack, 1, Len(stack) - 1), rootOnly)
    ELSE Balance(doc, i + 1, stack, rootOnly)

\* The reader once the tokens before p are read.
RECURSIVE ReaderAt(_, _, _)
ReaderAt(doc, r, p) ==
    IF r.pos >= p /\ ~r.half THEN r ELSE ReaderAt(doc, NextEvent(doc, r), p)

\* Decoding the child that starts at token p.
ChildDecode(p) == Deserialize(xml, ReaderAt(xml, NewReader, p), "Annotation")

\* The tokens the tokenizer gets to: all of them, or up to the one it rejects.
Reached == IF at.r.pos <= Len(xml) THEN at.r.pos ELSE Len(xml)

Plain(s) == s # << >> /\ \A i \in 1..Len(s) : s[i] \notin {"&", "<", ">"}

----------------------------------------------------------------------------
(* The claims *)

\* C1 (as stated): when an <Annotation> child of the root has no `type`
\* attribute, decode returns an error, never a value with a defaulted type.
C1_MissingTypeFails ==
    (pc = "decoded"
       /\ \E i \in DirectAnnotations(xml, Len(xml)) : ~HasType(xml[i]))
    => ~result.ok

\* C2: in an <Annotations> fragment, when the decode of the child at any
\* index fails, the container decode fails with that child's error and
\* returns no container.
C2_FailFast ==
    (pc = "decoded" /\ RootIs(xml, "Annotations"))
    => \A p \in DirectAnnotations(xml, Reached) :
          ~ChildDecode(p).ok
          => /\ ~result.ok
             /\ result.err = ChildDecode(p).err
             /\ result.annotations = << >>

\* A middle child fails: one child decoded before it, one stands after it.
C2_Witness ==
    /\ pc = "decoded"
    /\ RootIs(xml, "Annotations")
    /\ \E p \in DirectAnnotations(xml, Reached) :
          /\ ~ChildDecode(p).ok
          /\ \E q \in DirectAnnotations(xml, Reached) : q < p /\ ChildDecode(q).ok
          /\ \E q \in (p + 1)..Len(xml) : IsElement(xml[q]) /\ xml[q].name = "Annotation"
    /\ ~result.ok

\* C3: in a wellformed <Annotations> fragment whose Annotation children
\* carry a `type`, whatever is nested inside them, decode succeeds and
\* yields what decoding the fragment without the nested content yields:
\* one entry per Annotation child, with its type.
C3_NestedContentIgnored ==
    (pc = "decoded" /\ WellFormed /\ RootIs(xml, "Annotations")
       /\ AllTyped(DirectTokens(xml)))
    => /\ result.ok
       /\ result = from_str(Strip(xml))
       /\ EntriesMatch(result.annotations, DirectTokens(xml))

\* Vendor content two elements deep, with a `type` attribute of its own.
C3_Witness ==
    /\ pc = "decoded" /\ WellFormed /\ RootIs(xml, "Annotations")
    /\ AllTyped(DirectTokens(xml))
    /\ \E i \in 1..Len(xml) :
          InsideAnnotation(xml, i) /\ Level(xml, i) >= 3 /\ HasType(xml[i])
    /\ result.ok /\ Len(result.annotations) = 1

\* C4: a successful decode of an <Annotations> fragment whose Annotation
\* children carry types t1..tn yields exactly n entries, the i-th of type
\* ti: nothing reordered, merged or dropped.
C4_OrderAndMultiplicity ==
    (pc = "decoded" /\ result.ok /\ RootIs(xml, "Annotations")
       /\ AllTyped(DirectTokens(xml)))
    => result.annotations
         = [k \in 1..Len(DirectTokens(xml)) |-> [type |-> TypeOf(DirectTokens(xml)[k])]]

\* Three entries, two of them of the same type.
C4_Witness ==
    /\ pc = "decoded" /\ result.ok /\ RootIs(xml, "Annotations")
    /\ AllTyped(DirectTokens(xml))
    /\ result.annotations = <<[type |-> V2], [type |-> V1], [type |-> V1]>>

\* C5: for a container whose types are non-empty and hold no XML-special
\* character, decoding its encoding succeeds and gives the container back.
C5_RoundTrip ==
    (pc = "redecoded"
       /\ \A k \in 1..Len(result.annotations) : Plain(result.annotations[k].type))
    => result2.ok /\ result2.annotations = result.annotations

\* A container with two types, one of them twice, went round.
C5_Witness ==
    /\ pc = "redecoded"
    /\ result.annotations = <<[type |-> V1], [type |-> V2], [type |-> V2]>>
    /\ result2.ok

\* C6 (as stated): decode of a wellformed fragment whose root is not named
\* `Annotations` fails and returns no container.
C6_WrongRootFails ==
    (pc = "decoded" /\ WellFormed /\ ~RootIs(xml, "Annotations")) => ~result.ok

\* C7 (as stated): decode returns no container for a fragment whose open
\* and close tags do not balance.
C7_UnbalancedFails ==
    (pc = "decoded" /\ ~Balance(xml, 1, << >>, FALSE)) => ~result.ok

\* C7 (amended): decode fails with a malformed-XML error for a fragment
\* whose tags do not balance up to the root's end tag (an element left
\* unterminated, an end tag that closes another element).
C7_UnbalancedInRootFails ==
    (pc = "decoded" /\ ~Balance(xml, 1, << >>, TRUE))
    => ~result.ok /\ result.err = "MalformedXml"

\* <Annotations><Annotation type="v1"></Annotations>
C7_Witness ==
    /\ pc = "decoded"
    /\ xml = <<StartTok("Annotations", << >>),
               StartTok("Annotation", <<Attr("type", V1)>>),
               EndTok("Annotations")>>
    /\ ~result.ok /\ result.err = "MalformedXml"

\* C8 (as stated): every entry of a successfully decoded wellformed
\* fragment has a non-empty type.
C8_TypeNonEmpty ==
    (pc = "decoded" /\ WellFormed /\ result.ok)
    => \A k \in 1..Len(result.annotations) : result.annotations[k].type # NoChars

\* C9: in a wellformed <Annotations> fragment, decode succeeds with one
\* entry per <Annotation> child of the root; an <Annotation> nested deeper
\* adds no entry and changes no entry's type.
C9_OnlyImmediateChildren ==
    (pc = "decoded" /\ WellFormed /\ RootIs(xml, "Annotations"))
    => /\ result.ok
       /\ EntriesMatch(result.annotations, DirectTokens(xml))

\* An <Annotation> without type inside the vendor content of a typed one.
C9_Witness ==
    /\ pc = "decoded" /\ WellFormed /\ RootIs(xml, "Annotations")
    /\ \E i \in 1..Len(xml) :
          /\ InsideAnnotation(xml, i) /\ Level(xml, i) >= 3
          /\ xml[i].name = "Annotation" /\ ~HasType(xml[i])
    /\ result.ok /\ Len(result.annotations) = 1
    /\ result.annotations[1].type = V1

\* C10: encode writes the root holding one childless <Annotation type=..>
\* per entry, in order; so the encoding of a decoded fragment is the
\* encoding of the fragment decoded without its nested content.
C10_EncodeShape ==
    pc = "encoded"
    => /\ IF result.annotations = << >>
          THEN out = <<EmptyTok("Annotations", << >>)>>
          ELSE /\ Len(out) = Len(result.annotations) + 2
               /\ out[1] = StartTok("Annotations", << >>)
               /\ out[Len(out)] = EndTok("Annotations")
               /\ \A k \in 1..Len(result.annotations) :
                     /\ out[k + 1].kind = "empty"
                     /\ out[k + 1].name = "Annotation"
                     /\ Len(out[k + 1].attrs) = 1
                     /\ out[k + 1].attrs[1].name = "type"
                     /\ Unescape(out[k + 1].attrs[1].value)
                          = [ok |-> TRUE, s |-> result.annotations[k].type]
       /\ (WellFormed /\ RootIs(xml, "Annotations"))
            => out = to_string(from_str(Strip(xml)).annotations)

\* A fragment with nested content was decoded to two entries and encoded.
C10_Witness ==
    /\ pc = "encoded" /\ WellFormed /\ RootIs(xml, "Annotations")
    /\ Strip(xml) # xml
    /\ Len(result.annotations) = 2

====
